---- MODULE Spec2Model ----
(***************************************************************************)
(* CodeCache (sandbox/utils/code_cache.py): a flat directory of files      *)
(* named {sha256(language:suffix:code)}{suffix}.  The filesystem is the    *)
(* only state: each file has a content, an access time and a modification  *)
(* time.  Sizes are in bytes (one byte per character of the code); the     *)
(* clock is a counter whose unit is one timestamp granule.                 *)
(*                                                                         *)
(*   Spec      callers in sequence, each call runs to completion           *)
(*   SpecFault the same, on a filesystem that refuses some deletions       *)
(*   SpecHist  the same as Spec, with the history of accesses recorded     *)
(*   SpecConc  two callers without a lock, one filesystem call per step    *)
(*   SpecRace  the same as SpecConc, without clear                         *)
(*   SpecSeq   the same as Spec, with clear                                *)
(*   SpecRoot  callers in sequence on a root that may be removed           *)
(*   SpecKey   the key derivation applied to pairs of inputs               *)
(*   SpecGlobal two callers of the accessor get_code_cache                 *)
(***************************************************************************)
EXTENDS Integers, Sequences, FiniteSets, TLC

\* ---------------------------------------------------------------- bounds
MaxTime == 3          \* the clock runs 0..MaxTime
MaxCeiling == 3       \* max_size_bytes is drawn from 1..MaxCeiling
MaxTtl == 2           \* ttl_seconds is drawn from 1..MaxTtl
MaxDenied == 1        \* at most this many paths are undeletable at a time
MaxLen == 2           \* language and suffix have at most this many characters

\* ---------------------------------------------------------------- inputs
\* (code, language, suffix) triples the callers pass.  Strings are sequences
\* of characters.  Two requests share their code and differ in the language.
Requests ==
  { [code |-> <<"a">>,      language |-> <<"p">>, suffix |-> <<>>],
    [code |-> <<"a">>,      language |-> <<"q">>, suffix |-> <<>>],
    [code |-> <<"c">>,      language |-> <<"p">>, suffix |-> <<>>],
    [code |-> <<"b", "b">>, language |-> <<"p">>, suffix |-> <<".">>] }

\* no file at that path
NoFile == [exists |-> FALSE, content |-> <<>>, atime |-> 0, mtime |-> 0]
\* Python's None, where a path (a pair) is expected
None == <<>>
\* no request yet
NoReq == [code |-> <<>>, language |-> <<>>, suffix |-> <<>>]

VARIABLES
  files,           \* path -> NoFile or [exists, content, atime, mtime]
  cache_dir,       \* TRUE iff the cache root directory exists
  max_size_bytes,  \* self.max_size_bytes
  ttl_seconds,     \* self.ttl_seconds
  now,             \* time.time()
  undeletable,     \* paths whose unlink raises OSError (permission denied)
  tracked,         \* TRUE iff the access history is recorded
  accessOrder,     \* history: the existing files, least recently accessed
                   \* first, each with the time and kind of its last access
  last,            \* history: the last completed call, its inputs, its
                   \* result and the directory before it
  thr,             \* concurrent callers: each one's call, position and locals
  derived,         \* key derivation: two inputs and the digests computed
  _global_cache,   \* the module's global: None or the stored CodeCache
  constructed,     \* history: how many CodeCache objects were constructed
  callers          \* callers of get_code_cache: arguments, position, result

\* what no call on a CodeCache changes
process == <<derived, _global_cache, constructed, callers>>
config == <<cache_dir, max_size_bytes, ttl_seconds, tracked, thr, process>>
vars == <<files, cache_dir, max_size_bytes, ttl_seconds, now, undeletable,
          tracked, accessOrder, last, thr, derived, _global_cache, constructed,
          callers>>

\* ------------------------------------------------------- key derivation
\* content = f"{language}:{suffix}:{code}"; the digest is taken as injective
\* and is represented by the string it is computed from.
_compute_hash(code, language, suffix) ==
  language \o <<":">> \o suffix \o <<":">> \o code

\* cache_file = self.cache_dir / f"{code_hash}{suffix}": the hex digest has
\* a fixed length, so the name is the pair (digest, suffix).
CacheFile(req) == <<_compute_hash(req.code, req.language, req.suffix), req.suffix>>

Paths == { CacheFile(r) : r \in Requests }

\* ----------------------------------------------------------- filesystem
Exists(fs, p) == fs[p].exists

\* A touch that sets the modification time only.
Touch_mtime_only(fs, p, t) ==
  IF Exists(fs, p)
  THEN [fs EXCEPT ![p] = [exists |-> TRUE, content |-> fs[p].content,
                          atime |-> fs[p].atime, mtime |-> t]]
  ELSE [fs EXCEPT ![p] = [exists |-> TRUE, content |-> <<>>, atime |-> t, mtime |-> t]]

\* Path.touch(): utime to now; creates an empty file when there is none.
Touch(fs, p, t) ==
  IF Exists(fs, p)
  THEN [fs EXCEPT ![p] = [exists |-> TRUE, content |-> fs[p].content, atime |-> t,
                         mtime |-> t]]
  ELSE [fs EXCEPT ![p] = [exists |-> TRUE, content |-> <<>>, atime |-> t, mtime |-> t]]

\* Path.write_text(code): create or truncate, then write the whole text.
WriteText(fs, p, code, t) ==
  [fs EXCEPT ![p] = [exists |-> TRUE, content |-> code,
                     atime |-> IF Exists(fs, p) THEN fs[p].atime ELSE t,
                     mtime |-> t]]

\* An unlink that takes the other files of the directory along.
Unlink_dir(fs, p) == [q \in DOMAIN fs |-> NoFile]

\* Path.unlink()
Unlink(fs, p) == [fs EXCEPT ![p] = NoFile]

StSize(fs, p) == Len(fs[p].content)

Entries(fs) == { p \in Paths : Exists(fs, p) }

RECURSIVE SumSizes(_, _)
SumSizes(fs, ps) ==
  IF ps = {} THEN 0
  ELSE LET p == CHOOSE q \in ps : TRUE
       IN StSize(fs, p) + SumSizes(fs, ps \ {p})

\* _get_cache_size: sum of st_size over the files directly under the root.
_get_cache_size(fs) == SumSizes(fs, Entries(fs))

\* ------------------------------------------------------------ history
RECURSIVE Without(_, _)
Without(s, ps) ==
  IF s = <<>> THEN <<>>
  ELSE IF Head(s).path \in ps THEN Without(Tail(s), ps)
       ELSE <<Head(s)>> \o Without(Tail(s), ps)

\* The accesses after path p was accessed at time t, fs being the directory
\* after the call; refreshed: the access was a hit or a duplicate store.
Accessed(order, p, t, refreshed, fs) ==
  LET kept == Without(order, (Paths \ Entries(fs)) \cup {p})
  IN IF Exists(fs, p)
     THEN Append(kept, [path |-> p, t |-> t, refreshed |-> refreshed])
     ELSE kept

Range(s) == { s[i] : i \in 1..Len(s) }

\* A lookup that still accepts a file exactly ttl old.
get_cached_file_inclusive(fs, req, t, ttl, locked) ==
  LET cache_file == CacheFile(req)
  IN IF Exists(fs, cache_file)
     THEN IF t - fs[cache_file].mtime <= ttl
          THEN [fs |-> Touch(fs, cache_file, t), ret |-> cache_file,
                raised |-> FALSE]
          ELSE IF cache_file \in locked
               THEN [fs |-> fs, ret |-> None, raised |-> TRUE]
               ELSE [fs |-> Unlink(fs, cache_file), ret |-> None,
                     raised |-> FALSE]
     ELSE [fs |-> fs, ret |-> None, raised |-> FALSE]

\* --------------------------------------------------------- get_cached_file
\* Result: the new files, the returned path (or None), whether it raised.
get_cached_file(fs, req, t, ttl, locked) ==
  LET cache_file == CacheFile(req)
  IN IF Exists(fs, cache_file)
     THEN LET file_age == t - fs[cache_file].mtime
          IN IF file_age < ttl
             THEN [fs |-> Touch(fs, cache_file, t), ret |-> cache_file,
                   raised |-> FALSE]
             ELSE IF cache_file \in locked
                  THEN [fs |-> fs, ret |-> None, raised |-> TRUE]
                  ELSE [fs |-> Unlink(fs, cache_file), ret |-> None,
                        raised |-> FALSE]
     ELSE [fs |-> fs, ret |-> None, raised |-> FALSE]

\* A listing that is never sorted.
UnsortedCacheFiles(fs) ==
  { s \in [1..Cardinality(Entries(fs)) -> Entries(fs)] :
      \A i, j \in DOMAIN s : i < j => s[i] # s[j] }

\* ------------------------------------------------------ _cleanup_if_needed
\* cache_files after cache_files.sort(): the (st_atime, entry) tuples in
\* ascending order; entries of equal access time are ordered by their
\* digests, which is some order of the paths.
SortedCacheFiles(fs) ==
  { s \in [1..Cardinality(Entries(fs)) -> Entries(fs)] :
      /\ \A i, j \in DOMAIN s : i < j => s[i] # s[j]
      /\ \A i, j \in DOMAIN s : i < j => fs[s[i]].atime <= fs[s[j]].atime }

\* A pass that starts as soon as the size is above the floor.
OverFloor(current_size, max) == 5 * current_size > 4 * max

\* if current_size > self.max_size_bytes
OverCeiling(current_size, max) == current_size > max

\* A pass that stops at the ceiling instead of the floor.
AtCeiling(current_size, max) == current_size <= max

\* current_size <= target_size, where target_size = max_size_bytes * 0.8
AtTarget(current_size, max) == 5 * current_size <= 4 * max

\* The for loop over cache_files, from position i on.
RECURSIVE CleanupLoop(_, _, _, _, _, _)
CleanupLoop(fs, cache_files, i, current_size, max, locked) ==
  IF i > Len(cache_files) THEN [fs |-> fs, raised |-> FALSE]
  ELSE IF AtTarget(current_size, max) THEN [fs |-> fs, raised |-> FALSE]
  ELSE LET file_path == cache_files[i]
           file_size == StSize(fs, file_path)
       IN IF file_path \in locked
          THEN [fs |-> fs, raised |-> TRUE]
          ELSE CleanupLoop(Unlink(fs, file_path), cache_files, i + 1,
                           current_size - file_size, max, locked)

\* What the pass may hold in cache_files for the directory fs: the list is
\* built and sorted only when the directory is over the ceiling.
CacheFilesOf(fs, max) ==
  IF OverCeiling(_get_cache_size(fs), max) THEN SortedCacheFiles(fs)
  ELSE { <<>> }

\* A pass that never removes anything.
_cleanup_never(fs, cache_files, max, locked) == [fs |-> fs, raised |-> FALSE]

\* cache_files: what the sort yields for the directory fs.
_cleanup_if_needed(fs, cache_files, max, locked) ==
  LET current_size == _get_cache_size(fs)
  IN IF OverCeiling(current_size, max)
     THEN CleanupLoop(fs, cache_files, 1, current_size, max, locked)
     ELSE [fs |-> fs, raised |-> FALSE]

\* --------------------------------------------------------- cache_code_file
\* Result: the new files, the returned path, whether the call raised,
\* whether it wrote the file, the directory the eviction pass saw and
\* whether the pass found it over the ceiling.
cache_code_file(fs, req, t, max, locked, cache_files) ==
  LET cache_file == CacheFile(req)
  IN IF ~Exists(fs, cache_file)
     THEN LET written == WriteText(fs, cache_file, req.code, t)
              cleaned == _cleanup_if_needed(written, cache_files, max, locked)
          IN [fs |-> cleaned.fs,
              ret |-> IF cleaned.raised THEN None ELSE cache_file,
              raised |-> cleaned.raised, wrote |-> TRUE, scanned |-> written,
              swept |-> OverCeiling(_get_cache_size(written), max)]
     ELSE [fs |-> Touch(fs, cache_file, t), ret |-> cache_file,
           raised |-> FALSE, wrote |-> FALSE, scanned |-> fs, swept |-> FALSE]

\* A get_or_cache that reports every result as cached.
get_or_cache_always_cached(fs, req, t, ttl, max, locked, cache_files) ==
  LET got == get_cached_file(fs, req, t, ttl, locked)
  IN IF got.raised
     THEN [fs |-> got.fs, ret |-> None, was_cached |-> FALSE, raised |-> TRUE,
           wrote |-> FALSE, scanned |-> fs, swept |-> FALSE]
     ELSE IF got.ret # None
     THEN [fs |-> got.fs, ret |-> got.ret, was_cached |-> TRUE,
           raised |-> FALSE, wrote |-> FALSE, scanned |-> fs, swept |-> FALSE]
     ELSE LET new == cache_code_file(got.fs, req, t, max, locked, cache_files)
          IN [fs |-> new.fs, ret |-> new.ret, was_cached |-> TRUE,
              raised |-> new.raised, wrote |-> new.wrote,
              scanned |-> new.scanned, swept |-> new.swept]

\* ------------------------------------------------------------ get_or_cache
get_or_cache(fs, req, t, ttl, max, locked, cache_files) ==
  LET got == get_cached_file(fs, req, t, ttl, locked)
  IN IF got.raised
     THEN [fs |-> got.fs, ret |-> None, was_cached |-> FALSE, raised |-> TRUE,
           wrote |-> FALSE, scanned |-> fs, swept |-> FALSE]
     ELSE IF got.ret # None
     THEN [fs |-> got.fs, ret |-> got.ret, was_cached |-> TRUE,
           raised |-> FALSE, wrote |-> FALSE, scanned |-> fs, swept |-> FALSE]
     ELSE LET new == cache_code_file(got.fs, req, t, max, locked, cache_files)
          IN [fs |-> new.fs, ret |-> new.ret, was_cached |-> FALSE,
              raised |-> new.raised, wrote |-> new.wrote,
              scanned |-> new.scanned, swept |-> new.swept]

\* ------------------------------------------------------------------ state
EmptyDir == [p \in Paths |-> NoFile]

\* ------------------------------------------------------------------ clear
\* root: whether the cache root exists.  rmtree removes the root with all
\* its files, _ensure_cache_dir makes it anew; a missing root is left alone.
clear(fs, root) ==
  IF root THEN [fs |-> EmptyDir, root |-> TRUE, raised |-> FALSE]
  ELSE [fs |-> fs, root |-> root, raised |-> FALSE]

\* -------------------------------------------------------------- get_stats
\* no statistics: the call was not get_stats
NoStats == [num_files |-> 0, total_size |-> 0, max_size |-> 0, has_cache_dir |-> FALSE]

\* A get_stats that lists the root without asking whether it exists.
get_stats_unguarded(fs, root, max) ==
  [fs |-> fs, root |-> root, raised |-> ~root,
   stats |-> IF ~root THEN NoStats
             ELSE [num_files |-> Cardinality(Entries(fs)),
                   total_size |-> _get_cache_size(fs), max_size |-> max,
                   has_cache_dir |-> TRUE]]

\* Result: the files and the root after the call, whether it raised, and
\* the dictionary returned (sizes in bytes; has_cache_dir: the dictionary
\* has the key 'cache_dir').
get_stats(fs, root, max) ==
  [fs |-> fs, root |-> root, raised |-> FALSE,
   stats |-> IF ~root
             THEN [num_files |-> 0, total_size |-> 0, max_size |-> max,
                   has_cache_dir |-> FALSE]
             ELSE [num_files |-> Cardinality(Entries(fs)),
                   total_size |-> _get_cache_size(fs), max_size |-> max,
                   has_cache_dir |-> TRUE]]

\* The access history after the key's path p was accessed, fs being the
\* directory then.
History(p, refreshed, fs) ==
  IF tracked THEN Accessed(accessOrder, p, now, refreshed, fs) ELSE accessOrder

\* No call has returned since the clock last advanced.
Idle == [op |-> "none", req |-> NoReq, ret |-> None, raised |-> FALSE,
         wrote |-> FALSE, swept |-> FALSE, was_cached |-> FALSE,
         pre_file |-> NoFile, written |-> NoFile, scanned |-> EmptyDir, order |-> <<>>,
         stats |-> NoStats]

\* The record of a call that has just returned.  pre_file: the file of the
\* call's key before the call; written: the file as the call wrote it;
\* scanned and order: the directory and the
\* access history the eviction pass started from, when it found the
\* directory over the ceiling.
Returned(op, req, r, was_cached, refreshed) ==
  [op |-> op, req |-> req, ret |-> r.ret, raised |-> r.raised,
   wrote |-> r.wrote, swept |-> r.swept, was_cached |-> was_cached,
   pre_file |-> files[CacheFile(req)],
   written |-> IF r.wrote THEN r.scanned[CacheFile(req)] ELSE NoFile,
   scanned |-> IF r.swept THEN r.scanned ELSE EmptyDir,
   order |-> IF r.swept THEN History(CacheFile(req), refreshed, r.scanned)
             ELSE <<>>,
   stats |-> NoStats]

\* the concurrent callers
Threads == {"t1", "t2"}

\* A caller that is in no call.
NoCall == [pc |-> "idle", op |-> "none", req |-> NoReq, ret |-> None,
           orphan |-> FALSE, cache_files |-> <<>>, i |-> 0, current_size |-> 0]

\* Python's None, where a CodeCache is expected
NoInstance == [id |-> 0, max_size_mb |-> 0]

\* A caller that is not in get_code_cache.
NoAccess == [pc |-> "idle", enabled |-> FALSE, max_size_mb |-> 0,
             made |-> NoInstance, ret |-> NoInstance]

\* no key derivation under way
NoDerivation == [code |-> <<>>, a |-> NoReq, b |-> NoReq, done |-> FALSE,
                 hash_a |-> <<>>, hash_b |-> <<>>]

\* The process outside the cache object: nobody has called get_code_cache.
NoProcess ==
  /\ derived = NoDerivation
  /\ _global_cache = NoInstance
  /\ constructed = 0
  /\ callers = [t \in Threads |-> NoAccess]

\* After CodeCache(cache_dir, max_size_mb, ttl_seconds) on an empty root.
Constructed ==
  /\ NoProcess
  /\ files = EmptyDir
  /\ cache_dir = TRUE
  /\ max_size_bytes \in 1..MaxCeiling
  /\ ttl_seconds \in 1..MaxTtl
  /\ now = 0
  /\ accessOrder = <<>>
  /\ last = Idle
  /\ thr = [t \in Threads |-> NoCall]

Init == Constructed /\ undeletable = {} /\ tracked = FALSE

\* time passes
Tick ==
  /\ now < MaxTime
  /\ now' = now + 1
  /\ last' = Idle
  /\ UNCHANGED <<files, config, undeletable, accessOrder>>

\* a caller runs get_cached_file(code, language, suffix) to completion
Lookup ==
  \E req \in Requests :
    LET r == get_cached_file(files, req, now, ttl_seconds, undeletable)
    IN /\ files' = r.fs
       /\ accessOrder' = IF r.raised THEN accessOrder
                         ELSE History(CacheFile(req), TRUE, r.fs)
       /\ last' = Returned("lookup", req,
                           [ret |-> r.ret, raised |-> r.raised, wrote |-> FALSE,
                            swept |-> FALSE, scanned |-> files],
                           FALSE, TRUE)
       /\ UNCHANGED <<config, now, undeletable>>

\* a caller runs cache_code_file(code, language, suffix) to completion
Store ==
  \E req \in Requests :
    \E cache_files \in CacheFilesOf(WriteText(files, CacheFile(req), req.code, now),
                                    max_size_bytes) :
      LET r == cache_code_file(files, req, now, max_size_bytes, undeletable,
                               cache_files)
      IN /\ files' = r.fs
         /\ accessOrder' = History(CacheFile(req), ~r.wrote, r.fs)
         /\ last' = Returned("store", req, r, FALSE, ~r.wrote)
         /\ UNCHANGED <<config, now, undeletable>>

\* a caller runs get_or_cache(code, language, suffix) to completion
GetOrCache ==
  \E req \in Requests :
    LET got == get_cached_file(files, req, now, ttl_seconds, undeletable)
    IN \E cache_files \in CacheFilesOf(WriteText(got.fs, CacheFile(req), req.code, now),
                                       max_size_bytes) :
         LET r == get_or_cache(files, req, now, ttl_seconds, max_size_bytes,
                               undeletable, cache_files)
         IN /\ files' = r.fs
            /\ accessOrder' = IF r.wrote \/ r.was_cached
                              THEN History(CacheFile(req), r.was_cached, r.fs)
                              ELSE accessOrder
            /\ last' = Returned("get_or_cache", req, r, r.was_cached, r.was_cached)
            /\ UNCHANGED <<config, now, undeletable>>

Next == Tick \/ Lookup \/ Store \/ GetOrCache

Spec == Init /\ [][Next]_vars

\* The same callers, on a filesystem that refuses to delete some files
\* (a path is undeletable as long as the cache runs).
InitFault ==
  /\ Constructed
  /\ undeletable \in { d \in SUBSET Paths : Cardinality(d) \in 1..MaxDenied }
  /\ tracked = FALSE

\* An error that reaches the caller ends the run.
NextFault ==
  \/ ~last.raised /\ Tick
  \/ ~last.raised /\ Lookup
  \/ ~last.raised /\ Store
  \/ ~last.raised /\ GetOrCache

SpecFault == InitFault /\ [][NextFault]_vars

\* The same callers, with the access history recorded.
InitHist ==
  /\ Constructed
  /\ ttl_seconds = MaxTtl
  /\ undeletable = {}
  /\ tracked = TRUE

NextHist == Tick \/ Lookup \/ Store

SpecHist == InitHist /\ [][NextHist]_vars

\* a caller runs clear() to completion
Clear ==
  LET r == clear(files, cache_dir)
  IN /\ files' = r.fs
     /\ cache_dir' = r.root
     /\ accessOrder' = <<>>
     /\ last' = [Idle EXCEPT !.op = "clear", !.raised = r.raised]
     /\ UNCHANGED <<max_size_bytes, ttl_seconds, tracked, thr, process, now,
                    undeletable>>

\* Sequential use of the four calls the callers make, clear included.
NextSeq == Tick \/ Lookup \/ Store \/ GetOrCache \/ Clear

SpecSeq == Init /\ [][NextSeq]_vars

\* a caller runs get_stats() to completion
GetStats ==
  LET r == get_stats(files, cache_dir, max_size_bytes)
  IN /\ files' = r.fs
     /\ cache_dir' = r.root
     /\ last' = [Idle EXCEPT !.op = "get_stats", !.raised = r.raised,
                             !.stats = r.stats]
     /\ UNCHANGED <<max_size_bytes, ttl_seconds, tracked, thr, process, now,
                    undeletable, accessOrder>>

\* The cache root (by default /tmp/sandbox_code_cache) is removed from
\* outside the cache, with everything in it.
RootLost ==
  /\ cache_dir
  /\ cache_dir' = FALSE
  /\ files' = EmptyDir
  /\ accessOrder' = <<>>
  /\ last' = Idle
  /\ UNCHANGED <<max_size_bytes, ttl_seconds, tracked, thr, process, now,
                 undeletable>>

\* a caller runs cache_code_file to completion on a root that may be
\* missing: cache_file.exists() is False and write_text raises
\* FileNotFoundError
StoreRoot ==
  IF cache_dir THEN Store
  ELSE \E req \in Requests :
         /\ last' = [Idle EXCEPT !.op = "store", !.req = req, !.raised = TRUE]
         /\ UNCHANGED <<files, config, now, undeletable, accessOrder>>

NextRoot == RootLost \/ Clear \/ GetStats \/ StoreRoot

SpecRoot == Init /\ [][NextRoot]_vars

\* ---------------------------------------------------------- key derivation
\* The characters of the inputs: a letter and the delimiter.
Alphabet == {"a", ":"}
\* the strings of at most n characters
Strings(n) == UNION { [1..k -> Alphabet] : k \in 0..n }

\* Two calls of _compute_hash are to be made, with the same code.
InitKey ==
  /\ files = EmptyDir
  /\ cache_dir = TRUE
  /\ max_size_bytes = MaxCeiling
  /\ ttl_seconds = MaxTtl
  /\ now = 0
  /\ undeletable = {}
  /\ tracked = FALSE
  /\ accessOrder = <<>>
  /\ last = Idle
  /\ thr = [t \in Threads |-> NoCall]
  /\ \E code \in Strings(1) :
       \E la, sa, lb, sb \in Strings(MaxLen) :
         derived = [code |-> code,
                    a |-> [code |-> code, language |-> la, suffix |-> sa],
                    b |-> [code |-> code, language |-> lb, suffix |-> sb],
                    done |-> FALSE, hash_a |-> <<>>, hash_b |-> <<>>]
  /\ _global_cache = NoInstance
  /\ constructed = 0
  /\ callers = [t \in Threads |-> NoAccess]

\* _compute_hash is applied to both inputs
Derive ==
  /\ ~derived.done
  /\ derived' =
       [derived EXCEPT
          !.done = TRUE,
          !.hash_a = _compute_hash(derived.a.code, derived.a.language,
                                   derived.a.suffix),
          !.hash_b = _compute_hash(derived.b.code, derived.b.language,
                                   derived.b.suffix)]
  /\ UNCHANGED <<files, cache_dir, max_size_bytes, ttl_seconds, now,
                 undeletable, tracked, accessOrder, last, thr, _global_cache,
                 constructed, callers>>

NextKey == Derive

SpecKey == InitKey /\ [][NextKey]_vars

\* ------------------------------------------------------ concurrent callers
\* Callers run get_cached_file, cache_code_file and clear without any lock;
\* one step is one filesystem call.  They race for the first two requests.
ConcRequests == { r \in Requests : r.code = <<"a">> }

At(t, pc) == thr[t].pc = pc
Goto(t, pc) == thr' = [thr EXCEPT ![t].pc = pc]
Return(t, ret) ==
  thr' = [thr EXCEPT ![t] = [NoCall EXCEPT !.pc = "returned", !.op = thr[t].op,
                                           !.req = thr[t].req, !.ret = ret]]
Raise(t) ==
  thr' = [thr EXCEPT ![t] = [NoCall EXCEPT !.pc = "raised", !.op = thr[t].op,
                                           !.req = thr[t].req]]
File(t) == CacheFile(thr[t].req)
ConcFrame == UNCHANGED <<max_size_bytes, ttl_seconds, tracked, undeletable,
                         accessOrder, last, process>>

\* unlink of path p by caller t: a writer that holds p open keeps writing
\* to the removed file
Orphaned(t, p) ==
  [u \in Threads |->
     IF u # t /\ thr[u].pc = "s_write" /\ CacheFile(thr[u].req) = p
     THEN [thr[u] EXCEPT !.orphan = TRUE] ELSE thr[u]]

\* a caller enters get_cached_file, cache_code_file or clear
Call(t) ==
  /\ thr[t].pc \in {"idle", "returned", "raised"}
  /\ \/ \E req \in ConcRequests :
          \/ thr' = [thr EXCEPT ![t] = [NoCall EXCEPT !.pc = "g_exists",
                                          !.op = "lookup", !.req = req]]
          \/ thr' = [thr EXCEPT ![t] = [NoCall EXCEPT !.pc = "s_exists",
                                          !.op = "store", !.req = req]]
     \/ thr' = [thr EXCEPT ![t] = [NoCall EXCEPT !.pc = "c_exists", !.op = "clear"]]
  /\ UNCHANGED <<files, cache_dir, now>>
  /\ ConcFrame

\* get_cached_file: if cache_file.exists()
GExists(t) ==
  /\ At(t, "g_exists")
  /\ IF cache_dir /\ Exists(files, File(t)) THEN Goto(t, "g_stat")
     ELSE Return(t, None)
  /\ UNCHANGED <<files, cache_dir, now>>
  /\ ConcFrame

\* get_cached_file: file_age = time.time() - cache_file.stat().st_mtime
GStat(t) ==
  /\ At(t, "g_stat")
  /\ IF ~Exists(files, File(t)) THEN Raise(t)
     ELSE IF now - files[File(t)].mtime < ttl_seconds THEN Goto(t, "g_touch")
     ELSE Goto(t, "g_unlink")
  /\ UNCHANGED <<files, cache_dir, now>>
  /\ ConcFrame

\* get_cached_file: cache_file.touch(); return str(cache_file)
GTouch(t) ==
  /\ At(t, "g_touch")
  /\ IF cache_dir
     THEN files' = Touch(files, File(t), now) /\ Return(t, File(t))
     ELSE files' = files /\ Raise(t)
  /\ UNCHANGED <<cache_dir, now>>
  /\ ConcFrame

\* get_cached_file: cache_file.unlink(); return None
GUnlink(t) ==
  /\ At(t, "g_unlink")
  /\ IF Exists(files, File(t))
     THEN /\ files' = Unlink(files, File(t))
          /\ thr' = [Orphaned(t, File(t)) EXCEPT
                       ![t] = [NoCall EXCEPT !.pc = "returned", !.op = "lookup",
                                             !.req = thr[t].req]]
     ELSE files' = files /\ Raise(t)
  /\ UNCHANGED <<cache_dir, now>>
  /\ ConcFrame

\* cache_code_file: if not cache_file.exists()
SExists(t) ==
  /\ At(t, "s_exists")
  /\ IF cache_dir /\ Exists(files, File(t)) THEN Goto(t, "s_touch")
     ELSE Goto(t, "s_open")
  /\ UNCHANGED <<files, cache_dir, now>>
  /\ ConcFrame

\* cache_code_file: write_text opens the file, creating or truncating it
SOpen(t) ==
  /\ At(t, "s_open")
  /\ IF cache_dir
     THEN files' = WriteText(files, File(t), <<>>, now) /\ Goto(t, "s_write")
     ELSE files' = files /\ Raise(t)
  /\ UNCHANGED <<cache_dir, now>>
  /\ ConcFrame

\* cache_code_file: write_text writes the code and closes the file
SWrite(t) ==
  /\ At(t, "s_write")
  /\ files' = IF thr[t].orphan THEN files
              ELSE WriteText(files, File(t), thr[t].req.code, now)
  /\ thr' = [thr EXCEPT ![t].pc = "s_size", ![t].orphan = FALSE]
  /\ UNCHANGED <<cache_dir, now>>
  /\ ConcFrame

\* _cleanup_if_needed: current_size = self._get_cache_size()
SSize(t) ==
  /\ At(t, "s_size")
  /\ IF ~cache_dir THEN Raise(t)
     ELSE IF OverCeiling(_get_cache_size(files), max_size_bytes)
     THEN thr' = [thr EXCEPT ![t].pc = "s_list",
                             ![t].current_size = _get_cache_size(files)]
     ELSE Return(t, File(t))
  /\ UNCHANGED <<files, cache_dir, now>>
  /\ ConcFrame

\* _cleanup_if_needed: list the files with their st_atime and sort
SList(t) ==
  /\ At(t, "s_list")
  /\ IF ~cache_dir THEN Raise(t)
     ELSE \E cache_files \in SortedCacheFiles(files) :
            thr' = [thr EXCEPT ![t].pc = "s_loop", ![t].i = 1,
                               ![t].cache_files = cache_files]
  /\ UNCHANGED <<files, cache_dir, now>>
  /\ ConcFrame

\* _cleanup_if_needed: one round of the for loop (stat, unlink)
SLoop(t) ==
  /\ At(t, "s_loop")
  /\ LET file_path == thr[t].cache_files[thr[t].i]
     IN IF \/ thr[t].i > Len(thr[t].cache_files)
           \/ AtTarget(thr[t].current_size, max_size_bytes)
        THEN files' = files /\ Return(t, File(t))
        ELSE IF ~Exists(files, file_path)
        THEN files' = files /\ Raise(t)
        ELSE /\ files' = Unlink(files, file_path)
             /\ thr' = [Orphaned(t, file_path) EXCEPT
                          ![t].i = thr[t].i + 1,
                          ![t].current_size =
                             thr[t].current_size - StSize(files, file_path)]
  /\ UNCHANGED <<cache_dir, now>>
  /\ ConcFrame

\* cache_code_file: cache_file.touch() of the file found to exist
STouch(t) ==
  /\ At(t, "s_touch")
  /\ IF cache_dir
     THEN files' = Touch(files, File(t), now) /\ Return(t, File(t))
     ELSE files' = files /\ Raise(t)
  /\ UNCHANGED <<cache_dir, now>>
  /\ ConcFrame

\* clear: if self.cache_dir.exists()
CExists(t) ==
  /\ At(t, "c_exists")
  /\ IF cache_dir THEN Goto(t, "c_rmtree") ELSE Return(t, None)
  /\ UNCHANGED <<files, cache_dir, now>>
  /\ ConcFrame

\* clear: shutil.rmtree(self.cache_dir)
CRmtree(t) ==
  /\ At(t, "c_rmtree")
  /\ IF cache_dir
     THEN /\ files' = EmptyDir
          /\ cache_dir' = FALSE
          /\ thr' = [u \in Threads |->
                       IF u = t THEN [thr[t] EXCEPT !.pc = "c_mkdir"]
                       ELSE IF thr[u].pc = "s_write"
                            THEN [thr[u] EXCEPT !.orphan = TRUE] ELSE thr[u]]
     ELSE UNCHANGED <<files, cache_dir>> /\ Raise(t)
  /\ UNCHANGED now
  /\ ConcFrame

\* clear: self._ensure_cache_dir()
CMkdir(t) ==
  /\ At(t, "c_mkdir")
  /\ cache_dir' = TRUE
  /\ Return(t, None)
  /\ UNCHANGED <<files, now>>
  /\ ConcFrame

\* time passes while calls are under way
ConcTick ==
  /\ now < MaxTime
  /\ now' = now + 1
  /\ UNCHANGED <<files, cache_dir, thr>>
  /\ ConcFrame

NextConc ==
  \/ ConcTick
  \/ \E t \in Threads : Call(t)
  \/ \E t \in Threads : GExists(t)
  \/ \E t \in Threads : GStat(t)
  \/ \E t \in Threads : GTouch(t)
  \/ \E t \in Threads : GUnlink(t)
  \/ \E t \in Threads : SExists(t)
  \/ \E t \in Threads : SOpen(t)
  \/ \E t \in Threads : SWrite(t)
  \/ \E t \in Threads : SSize(t)
  \/ \E t \in Threads : SList(t)
  \/ \E t \in Threads : SLoop(t)
  \/ \E t \in Threads : STouch(t)
  \/ \E t \in Threads : CExists(t)
  \/ \E t \in Threads : CRmtree(t)
  \/ \E t \in Threads : CMkdir(t)

\* The cache is either so small that two entries overflow it or so large
\* that nothing is evicted; an entry expires one clock step after its
\* last refresh.
InitConc ==
  /\ Constructed
  /\ max_size_bytes \in {1, MaxCeiling}
  /\ ttl_seconds = 1
  /\ undeletable = {}
  /\ tracked = FALSE

SpecConc == InitConc /\ [][NextConc]_vars

\* a caller enters get_cached_file or cache_code_file
CallCache(t) == Call(t) /\ thr'[t].op # "clear"

\* The callers look up and store only; nobody clears the cache.
NextRace ==
  \/ ConcTick
  \/ \E t \in Threads : CallCache(t)
  \/ \E t \in Threads : GExists(t)
  \/ \E t \in Threads : GStat(t)
  \/ \E t \in Threads : GTouch(t)
  \/ \E t \in Threads : GUnlink(t)
  \/ \E t \in Threads : SExists(t)
  \/ \E t \in Threads : SOpen(t)
  \/ \E t \in Threads : SWrite(t)
  \/ \E t \in Threads : SSize(t)
  \/ \E t \in Threads : SList(t)
  \/ \E t \in Threads : SLoop(t)
  \/ \E t \in Threads : STouch(t)

SpecRace == InitConc /\ [][NextRace]_vars

\* ---------------------------------------------------------- get_code_cache
\* Callers run get_code_cache(enabled, max_size_mb=...) without any lock; one
\* step is one read or write of the global _global_cache, or the
\* construction of a CodeCache.
CacheFrame == UNCHANGED <<files, max_size_bytes, ttl_seconds, now, undeletable,
                          tracked, accessOrder, last, thr, derived>>

\* a caller enters get_code_cache: if not enabled: return None
GetCodeCache(t) ==
  /\ callers[t].pc \in {"idle", "returned"}
  /\ \E enabled \in BOOLEAN : \E max_size_mb \in 1..MaxCeiling :
       callers' = [callers EXCEPT
                     ![t] = IF enabled
                            THEN [NoAccess EXCEPT !.pc = "gc_check",
                                                  !.enabled = TRUE,
                                                  !.max_size_mb = max_size_mb]
                            ELSE [NoAccess EXCEPT !.pc = "returned",
                                                  !.max_size_mb = max_size_mb]]
  /\ UNCHANGED <<cache_dir, _global_cache, constructed>>
  /\ CacheFrame

\* if _global_cache is None
GCheck(t) ==
  /\ callers[t].pc = "gc_check"
  /\ callers' = [callers EXCEPT
                   ![t].pc = IF _global_cache = NoInstance THEN "gc_construct"
                             ELSE "gc_return"]
  /\ UNCHANGED <<cache_dir, _global_cache, constructed>>
  /\ CacheFrame

\* CodeCache(**kwargs): a new object; __init__ makes the root directory
GConstruct(t) ==
  /\ callers[t].pc = "gc_construct"
  /\ constructed' = constructed + 1
  /\ cache_dir' = TRUE
  /\ callers' = [callers EXCEPT
                   ![t].pc = "gc_assign",
                   ![t].made = [id |-> constructed + 1,
                                max_size_mb |-> callers[t].max_size_mb]]
  /\ UNCHANGED _global_cache
  /\ CacheFrame

\* _global_cache = <the new object>
GAssign(t) ==
  /\ callers[t].pc = "gc_assign"
  /\ _global_cache' = callers[t].made
  /\ callers' = [callers EXCEPT ![t].pc = "gc_return"]
  /\ UNCHANGED <<cache_dir, constructed>>
  /\ CacheFrame

\* return _global_cache
GReturn(t) ==
  /\ callers[t].pc = "gc_return"
  /\ callers' = [callers EXCEPT ![t].pc = "returned", ![t].ret = _global_cache]
  /\ UNCHANGED <<cache_dir, _global_cache, constructed>>
  /\ CacheFrame

NextGlobal ==
  \/ \E t \in Threads : GetCodeCache(t)
  \/ \E t \in Threads : GCheck(t)
  \/ \E t \in Threads : GConstruct(t)
  \/ \E t \in Threads : GAssign(t)
  \/ \E t \in Threads : GReturn(t)

\* The module has been imported: _global_cache is None, no CodeCache exists.
InitGlobal ==
  /\ files = EmptyDir
  /\ cache_dir = FALSE
  /\ max_size_bytes = MaxCeiling
  /\ ttl_seconds = MaxTtl
  /\ now = 0
  /\ undeletable = {}
  /\ tracked = FALSE
  /\ accessOrder = <<>>
  /\ last = Idle
  /\ thr = [t \in Threads |-> NoCall]
  /\ NoProcess

SpecGlobal == InitGlobal /\ [][NextGlobal]_vars

TypeOK ==
  /\ \A p \in Paths : files[p] = NoFile \/ files[p].atime \in 0..now
  /\ now \in 0..MaxTime
  /\ tracked => { e.path : e \in Range(accessOrder) } = Entries(files)

\* ================================================================ claims
Key == CacheFile(last.req)
Floor(size) == 5 * size <= 4 * max_size_bytes
\* what the eviction pass of the last call removed, and what it left
Removed == Entries(last.scanned) \ Entries(files)
Survivors == Entries(files)

\* C1: whenever cache_code_file or get_or_cache returns a path without
\* raising, a file exists at that path and its content is the given code,
\* also when the eviction pass ran inside the call.
C1_ReturnedPathHoldsCode ==
  (last.op \in {"store", "get_or_cache"} /\ ~last.raised)
    => /\ last.ret = Key
       /\ Exists(files, last.ret)
       /\ files[last.ret].content = last.req.code

\* C2: a get_cached_file that directly follows a cache_code_file of the same
\* inputs, with no time passed, returns the path the store returned.
C2_LookupAfterStoreHits ==
  [][(/\ last.op = "store" /\ ~last.raised
      /\ last'.op = "lookup" /\ last'.req = last.req /\ now' = now)
       => last'.ret = last.ret /\ last'.ret # None]_vars

\* C3: for an entry whose file exists, get_cached_file with age < ttl_seconds
\* returns the path, keeps the file and sets its recency to now; with
\* age >= ttl_seconds it returns None and the file is gone.
C3_LookupDecidesByAge ==
  (last.op = "lookup" /\ last.pre_file.exists)
    => LET age == now - last.pre_file.mtime
       IN /\ age < ttl_seconds
               => /\ last.ret = Key
                  /\ Exists(files, Key)
                  /\ files[Key].content = last.pre_file.content
                  /\ files[Key].mtime = now /\ files[Key].atime = now
          /\ age >= ttl_seconds
               => last.ret = None /\ ~Exists(files, Key)

\* a lookup found the file exactly ttl_seconds old and removed it
C3_Witness ==
  /\ last.op = "lookup" /\ last.pre_file.exists
  /\ now - last.pre_file.mtime = ttl_seconds
  /\ last.ret = None /\ ~Exists(files, Key)

\* C4: an eviction pass that starts over the ceiling and completes leaves a
\* total size of at most 0.8 * max_size_bytes.
C4_PassReachesFloor ==
  (last.swept /\ ~last.raised)
    => /\ _get_cache_size(last.scanned) > max_size_bytes
       /\ Floor(_get_cache_size(files))

\* a pass started over the ceiling and left entries behind
C4_Witness ==
  /\ last.swept /\ ~last.raised
  /\ Cardinality(Survivors) >= 2
  /\ _get_cache_size(files) > 0

\* C5: the entries one eviction pass removes are the shortest prefix of the
\* entries in ascending access time that brings the size to the floor: no
\* removed entry was accessed later than a surviving one, and without the
\* last removal the size would still be above the floor.
C5_RemovesOldestPrefix ==
  last.swept
    => /\ \A r \in Removed : \A k \in Survivors :
            last.scanned[r].atime <= last.scanned[k].atime
       /\ Removed # {}
       /\ \E r \in Removed :
            /\ \A q \in Removed : last.scanned[q].atime <= last.scanned[r].atime
            /\ ~Floor(_get_cache_size(files) + StSize(last.scanned, r))

\* a pass removed the two oldest of its entries and kept the later one
C5_Witness ==
  /\ last.swept
  /\ Cardinality(Removed) = 2
  /\ Survivors # {}
  /\ \A r \in Removed : \A k \in Survivors :
       last.scanned[r].atime < last.scanned[k].atime

\* The pass the error-handling design describes: an entry whose deletion
\* fails is skipped and the loop goes on.
RECURSIVE SkipLoop(_, _, _, _)
SkipLoop(fs, cache_files, i, current_size) ==
  IF i > Len(cache_files) \/ Floor(current_size) THEN fs
  ELSE IF cache_files[i] \in undeletable
       THEN SkipLoop(fs, cache_files, i + 1, current_size)
       ELSE SkipLoop(Unlink(fs, cache_files[i]), cache_files, i + 1,
                     current_size - StSize(fs, cache_files[i]))

\* C6: a failing deletion is skipped: the pass still removes every other
\* entry it would have removed, and cache_code_file does not raise.
C6_FailedDeleteIsSkipped ==
  (last.op = "store" /\ last.swept)
    => /\ ~last.raised
       /\ \E cache_files \in SortedCacheFiles(last.scanned) :
            files = SkipLoop(last.scanned, cache_files, 1,
                             _get_cache_size(last.scanned))

C9_SecondStoreOnlyTouches ==
  [][(/\ last.op = "store" /\ ~last.raised
      /\ last'.op = "store" /\ last'.req = last.req /\ ~last'.raised
      /\ now' = now)
       => /\ last'.ret = last.ret
          /\ ~last'.wrote
          /\ Exists(files', last'.ret)
          /\ files'[last'.ret].content = last.req.code
          /\ \A p \in Paths :
               /\ files'[p].exists = files[p].exists
               /\ files'[p].content = files[p].content
               /\ p # last'.ret => files'[p] = files[p]]_vars

\* the history entry of path p when the pass of the last call started
Access(p) == CHOOSE e \in Range(last.order) : e.path = p
Position(p) == CHOOSE i \in 1..Len(last.order) : last.order[i].path = p

\* C10: if A was re-accessed (hit or duplicate store) after the last access
\* of B, every eviction pass that removes A also removes B.
C10_RefreshedOutlivesOlder ==
  last.swept
    => \A a \in Removed : \A b \in Survivors :
         ~(Access(a).refreshed /\ Position(a) > Position(b))

\* C10 as amended: if A was re-accessed at a later timestamp than the last
\* access of B, every eviction pass that removes A also removes B.
C10_RefreshedLaterOutlivesOlder ==
  last.swept
    => \A a \in Removed : \A b \in Survivors :
         ~(/\ Access(a).refreshed /\ Position(a) > Position(b)
           /\ Access(a).t > Access(b).t)

\* a pass removed an entry B and kept an entry A re-accessed after B's last
\* access
C10_Witness ==
  /\ last.swept
  /\ \E a \in Survivors : \E b \in Removed :
       /\ Access(a).refreshed /\ Position(a) > Position(b)
       /\ Access(a).t > Access(b).t

\* C11: from every state, also when the cache root does not exist, clear()
\* returns without error and leaves the root in place and empty (get_stats
\* then reports zero files and zero size), and a cache_code_file that
\* follows succeeds and returns the path of the file it wrote.
C11_ClearLeavesUsableRoot ==
  [][/\ last'.op = "clear"
          => LET after == get_stats(files', cache_dir', max_size_bytes)
             IN /\ ~last'.raised
                /\ cache_dir'
                /\ ~after.raised
                /\ after.stats.num_files = 0 /\ after.stats.total_size = 0
     /\ (last.op = "clear" /\ last'.op = "store")
          => /\ ~last'.raised
             /\ last'.wrote
             /\ last'.ret = CacheFile(last'.req)]_vars

\* C12: for identical code, two different (language, suffix) pairs never
\* have the same key: the strings _compute_hash builds for them differ, for
\* all languages and suffixes over an alphabet that contains ':'.
C12_DistinctPairsDistinctKeys ==
  (/\ derived.done
   /\ <<derived.a.language, derived.a.suffix>>
        # <<derived.b.language, derived.b.suffix>>)
    => derived.hash_a # derived.hash_b

\* C13: get_stats is a pure read: files and root stay as they are; it
\* reports the number of files under the root and the sum of their sizes,
\* and zero for both, without raising, when the root does not exist.
C13_GetStatsIsPureRead ==
  [][last'.op = "get_stats"
       => LET present == { p \in Paths : files[p].exists }
          IN /\ ~last'.raised
             /\ files' = files
             /\ cache_dir' = cache_dir
             /\ cache_dir
                  => /\ last'.stats.num_files = Cardinality(present)
                     /\ last'.stats.total_size = SumSizes(files, present)
             /\ ~cache_dir
                  => /\ last'.stats.num_files = 0
                     /\ last'.stats.total_size = 0]_vars

\* get_stats has counted two files
C13_Witness ==
  /\ last.op = "get_stats" /\ ~last.raised
  /\ last.stats.num_files = 2
  /\ last.stats.total_size = _get_cache_size(files)
  /\ Cardinality(Entries(files)) = 2

\* C14: an eviction pass that starts with a total size of at most
\* max_size_bytes (also exactly max_size_bytes, also above the floor)
\* removes nothing and changes nothing: the call leaves the directory as
\* its write made it.
C14_PassAtCeilingIsNoOp ==
  [][(last'.op \in {"store", "get_or_cache"} /\ last'.wrote)
       => LET pre == IF last'.op = "store" THEN files
                     ELSE get_cached_file(files, last'.req, now, ttl_seconds,
                                          undeletable).fs
              written == WriteText(pre, CacheFile(last'.req), last'.req.code, now)
          IN SumSizes(written, { p \in Paths : written[p].exists }) <= max_size_bytes
               => files' = written /\ ~last'.raised]_vars

\* a store filled the cache exactly to max_size_bytes, above the floor, and
\* all the entries are there
C14_Witness ==
  /\ last.op = "store" /\ last.wrote /\ ~last.swept /\ ~last.raised
  /\ _get_cache_size(files) = max_size_bytes
  /\ ~Floor(_get_cache_size(files))
  /\ Cardinality(Entries(files)) >= 2
  /\ files[Key] = last.written

\* C18: in sequential use from an empty cache, the total size of the files
\* under the root is at most max_size_bytes after every call has returned;
\* it is above max_size_bytes only inside a call that wrote a file, between
\* the write and the end of the eviction pass.
C18_SizeWithinCeilingBetweenCalls ==
  /\ SumSizes(files, { p \in Paths : files[p].exists }) <= max_size_bytes
  /\ last.swept
       => /\ last.op \in {"store", "get_or_cache"} /\ last.wrote
          /\ _get_cache_size(last.scanned) > max_size_bytes

\* a call wrote a file, the size went over the ceiling, and the pass
\* brought it back under it, leaving other entries in place
C18_Witness ==
  /\ last.swept /\ last.wrote /\ ~last.raised
  /\ _get_cache_size(last.scanned) > max_size_bytes
  /\ _get_cache_size(files) <= max_size_bytes
  /\ Entries(files) # {}

\* C19: a get_cached_file for key k changes no entry other than k: with no
\* file for k it changes nothing and creates nothing; on a hit only the
\* timestamps of k's file change; on expiry only k's file is removed; no
\* eviction pass runs.
C19_LookupTouchesOnlyItsKey ==
  [][last'.op = "lookup"
       => LET k == CacheFile(last'.req)
          IN /\ \A p \in Paths \ {k} : files'[p] = files[p]
             /\ cache_dir' = cache_dir
             /\ ~files[k].exists => files' = files /\ last'.ret = None
             /\ (files[k].exists /\ last'.ret # None)
                  => /\ files'[k].exists
                     /\ files'[k].content = files[k].content
             /\ (files[k].exists /\ last'.ret = None) => files'[k] = NoFile
             /\ ~last'.swept /\ ~last'.wrote]_vars

\* a lookup removed the expired file of its key; other entries are there
C19_Witness ==
  /\ last.op = "lookup" /\ ~last.raised
  /\ last.pre_file.exists /\ last.ret = None /\ ~Exists(files, Key)
  /\ Entries(files) # {}

\* C15: under every interleaving of lookups, stores and their eviction
\* passes, a path that get_cached_file returns as a hit, or that
\* cache_code_file returns for a file it found to exist, names a file that
\* holds the complete code of its key, never an empty or missing one.
C15_HitPathHoldsCompleteCode ==
  [][\A t \in Threads :
       (/\ thr[t].pc \in {"g_touch", "s_touch"}
        /\ thr'[t].pc = "returned"
        /\ thr'[t].ret # None)
         => /\ files'[thr'[t].ret].exists
            /\ files'[thr'[t].ret].content = thr'[t].req.code]_vars

\* C16: when two cache_code_file calls with the same inputs have both
\* finished their writes, the file of the key holds exactly the code, and
\* each call that has returned has returned the path of the key.
C16_SameKeyWritersAgree ==
  \A t, u \in Threads :
    (/\ t # u
     /\ thr[t].op = "store" /\ thr[u].op = "store"
     /\ thr[t].req = thr[u].req
     /\ thr[t].pc \in {"s_size", "s_list", "s_loop", "returned"}
     /\ thr[u].pc \in {"s_size", "s_list", "s_loop", "returned"})
      => /\ thr[t].pc = "returned" => thr[t].ret = File(t)
         /\ files[File(t)].exists
         /\ files[File(t)].content = thr[t].req.code

\* C17: get_cached_file deletes a file only if the file's age is at least
\* ttl_seconds at the moment of the deletion.
C17_DeletesOnlyExpired ==
  [][\A t \in Threads :
       (thr[t].pc = "g_unlink" /\ thr'[t].pc = "returned")
         => now - files[File(t)].mtime >= ttl_seconds]_vars

\* C20: over every interleaving of get_code_cache calls at most one
\* CodeCache is constructed; all calls with enabled=True return that one
\* instance, whatever arguments they pass; a call with enabled=False
\* returns None.
C20_OneInstanceForTheProcess ==
  /\ constructed <= 1
  /\ \A t, u \in Threads :
       (/\ callers[t].pc = "returned" /\ callers[t].enabled
        /\ callers[u].pc = "returned" /\ callers[u].enabled)
         => /\ callers[t].ret # NoInstance
            /\ callers[t].ret = callers[u].ret
  /\ \A t \in Threads :
       (callers[t].pc = "returned" /\ ~callers[t].enabled)
         => callers[t].ret = NoInstance

\* C7: under every interleaving of concurrent lookups, eviction passes and
\* clear, a get_cached_file ends by returning a path or None, never by
\* raising because the file has disappeared.
C7_LookupNeverRaises ==
  \A t \in Threads : ~(thr[t].op = "lookup" /\ thr[t].pc = "raised")
====
